---- MODULE Spec2Model ----
(***************************************************************************)
(* AdaptiveStepsize (include/ensmallen_bits/bigbatch_sgd/                  *)
(* adaptive_stepsize.hpp): the adaptive stepsize policy of big batch SGD   *)
(* and its backtracking line search.                                       *)
(*                                                                         *)
(* Numbers.  The code computes in `double`.  A double is modelled by a     *)
(* binary floating point number with Precision significant bits, round to  *)
(* nearest (ties to even) after every operation, and a smallest positive   *)
(* value of 2^-FracBits below which results round to zero (gradual         *)
(* underflow).  A value is held as <<m, e>>, the number m * 2^e with m odd *)
(* (<<0, 0>> is zero).  Division by zero yields a non-finite double; the   *)
(* code tests the curvature for it (std::isfinite, modelled in Curvature), *)
(* and the division of line 151 by batchSize - 1 = 0 is left to the caller *)
(* to exclude (BodyDividesByZero).                                         *)
(*                                                                         *)
(* Matrices.  arma::mat is modelled by a sequence of numbers; the empty    *)
(* sequence is the empty matrix, and the optimisation runs on 1x1          *)
(* matrices, for which arma::norm(., 2) is the absolute value.             *)
(***************************************************************************)
EXTENDS Integers, Sequences, FiniteSets, TLC

\* ------------------------------------------------------------- bounds
\* Fraction bits of the number format: the smallest positive number is
\* 2^-FracBits.
FracBits == 16
\* Significant bits of the number format (53 in a double).
Precision == 6
\* NumFunctions() of the objective functions of the model.
NumSamples == 3
\* Update calls in one run.
MaxCalls == 2

\* ------------------------------------------------------------- numbers
\* A number is <<m, e>>, the value m * 2^e, with m odd (or <<0, 0>>),
\* |m| < 2^Precision and e >= -FracBits.
Abs(x) == IF x < 0 THEN -x ELSE x

\* Bits of n >= 0 (n < 2^31).
BitLen(n) ==
    IF n < 2^16
    THEN IF n < 2^8
         THEN IF n < 2^4
              THEN IF n < 2^2 THEN (IF n < 1 THEN 0 ELSE IF n < 2 THEN 1 ELSE 2)
                   ELSE (IF n < 2^3 THEN 3 ELSE 4)
              ELSE IF n < 2^6 THEN (IF n < 2^5 THEN 5 ELSE 6)
                   ELSE (IF n < 2^7 THEN 7 ELSE 8)
         ELSE IF n < 2^12
              THEN IF n < 2^10 THEN (IF n < 2^9 THEN 9 ELSE 10)
                   ELSE (IF n < 2^11 THEN 11 ELSE 12)
              ELSE IF n < 2^14 THEN (IF n < 2^13 THEN 13 ELSE 14)
                   ELSE (IF n < 2^15 THEN 15 ELSE 16)
    ELSE IF n < 2^24
         THEN IF n < 2^20
              THEN IF n < 2^18 THEN (IF n < 2^17 THEN 17 ELSE 18)
                   ELSE (IF n < 2^19 THEN 19 ELSE 20)
              ELSE IF n < 2^22 THEN (IF n < 2^21 THEN 21 ELSE 22)
                   ELSE (IF n < 2^23 THEN 23 ELSE 24)
         ELSE IF n < 2^28
              THEN IF n < 2^26 THEN (IF n < 2^25 THEN 25 ELSE 26)
                   ELSE (IF n < 2^27 THEN 27 ELSE 28)
              ELSE IF n < 2^30 THEN (IF n < 2^29 THEN 29 ELSE 30)
                   ELSE 31

RECURSIVE TrailingZeros(_)
TrailingZeros(n) == IF n % 2 # 0 THEN 0 ELSE 1 + TrailingZeros(n \div 2)

\* m * 2^e with the trailing zero bits of m moved into e.
Canonical(m, e) ==
    IF m = 0 THEN <<0, 0>>
    ELSE <<m \div (2 ^ TrailingZeros(m)), e + TrailingZeros(m)>>

\* num / den (den > 0) rounded to the nearest integer, ties to even.
RoundInt(num, den) ==
    LET q == num \div den
        r == num % den
    IN  IF 2 * r < den THEN q
        ELSE IF 2 * r > den THEN q + 1
        ELSE IF q % 2 = 0 THEN q ELSE q + 1

Max(a, b) == IF a > b THEN a ELSE b

\* The number nearest to (num / den) * 2^e, den > 0: one rounding to
\* Precision significant bits and to a multiple of 2^-FracBits.
Round(num, den, e) ==
    LET len  == BitLen(Abs(num) \div den)
        drop == Max(0, Max(len - Precision, -FracBits - e))
    IN  IF drop > len + 1 THEN <<0, 0>>
        ELSE Canonical(RoundInt(num, den * (2 ^ drop)), e + drop)

\* Bits by which an operand is widened before an exact sum or quotient.
Guard == 2 * Precision + 2

\* (double) k for an integer k.
FromInt(k) == Round(k, 1, 0)

\* The double nearest to the decimal literal n / d.
Literal(n, d) == Round(n * (2 ^ Guard), d, -Guard)

Neg(a) == <<-a[1], a[2]>>

\* a + b: past Guard bits of distance the smaller operand is below half a
\* unit in the last place of the larger one.
Add(a, b) ==
    IF a[1] = 0 THEN b
    ELSE IF b[1] = 0 THEN a
    ELSE IF a[2] - b[2] > Guard THEN a
    ELSE IF b[2] - a[2] > Guard THEN b
    ELSE IF a[2] >= b[2] THEN Round(a[1] * (2 ^ (a[2] - b[2])) + b[1], 1, b[2])
    ELSE Round(b[1] * (2 ^ (b[2] - a[2])) + a[1], 1, a[2])

Sub(a, b) == Add(a, Neg(b))

Mul(a, b) == Round(a[1] * b[1], 1, a[2] + b[2])

\* a / b for b # 0.
Div(a, b) ==
    IF b[1] < 0 THEN Round(-a[1] * (2 ^ Guard), -b[1], a[2] - b[2] - Guard)
    ELSE Round(a[1] * (2 ^ Guard), b[1], a[2] - b[2] - Guard)

\* a > b: the difference of two numbers never rounds to 0 or across it.
Greater(a, b) == Sub(a, b)[1] > 0

IsZero(a) == a[1] = 0

AbsNum(a) == <<Abs(a[1]), a[2]>>

NumZero == <<0, 0>>

One == FromInt(1)

Half == Literal(1, 2)

\* ------------------------------------------------------------- matrices
Zeros(n) == [i \in 1..n |-> NumZero]

IsEmpty(m) == Len(m) = 0

MatAdd(a, b) == [i \in 1..Len(a) |-> Add(a[i], b[i])]

MatSub(a, b) == [i \in 1..Len(a) |-> Sub(a[i], b[i])]

\* s * m
MatScale(s, m) == [i \in 1..Len(m) |-> Mul(s, m[i])]

\* m / d
MatDiv(m, d) == [i \in 1..Len(m) |-> Div(m[i], d)]

\* arma::trace(arma::trans(a) * b)
RECURSIVE TraceTransMul(_, _)
TraceTransMul(a, b) ==
    IF Len(a) = 0 THEN NumZero
    ELSE Add(TraceTransMul(SubSeq(a, 1, Len(a) - 1), SubSeq(b, 1, Len(b) - 1)),
             Mul(a[Len(a)], b[Len(b)]))

\* arma::norm(m, 2) of a one-element matrix.
Norm(m) == AbsNum(m[1])

\* std::pow(arma::norm(m, 2), 2.0)
NormSquared(m) == Mul(Norm(m), Norm(m))

\* ------------------------------------------- the objective function
\* DecomposableFunctionType: sample i (from 0) of fn is the quadratic
\* 0.5 * |x - fn[i + 1]|^2; all centres 0 is the 0.5 * x^2 objective.
NumFunctions(fn) == Len(fn)

SampleObjective(fn, x, i) ==
    LET d == MatSub(x, [k \in 1..Len(x) |-> fn[i + 1]])
    IN  Mul(Half, TraceTransMul(d, d))

SampleGradient(fn, x, i) == MatSub(x, [k \in 1..Len(x) |-> fn[i + 1]])

\* function.Evaluate(x, offset, batchSize): the sum over the batch.
RECURSIVE Evaluate(_, _, _, _)
Evaluate(fn, x, offset, batchSize) ==
    IF batchSize = 0 THEN NumZero
    ELSE Add(Evaluate(fn, x, offset, batchSize - 1),
             SampleObjective(fn, x, offset + batchSize - 1))

\* function.Gradient(x, offset, gradient, batchSize): the sum over the batch.
RECURSIVE Gradient(_, _, _, _)
Gradient(fn, x, offset, batchSize) ==
    IF batchSize = 0 THEN Zeros(Len(x))
    ELSE MatAdd(Gradient(fn, x, offset, batchSize - 1),
                SampleGradient(fn, x, offset + batchSize - 1))

\* ------------------------------------------------------------- state
\* function: the objective function of the run (the centre of each sample).
\* ctl: one AdaptiveStepsize object together with the driver's variables it
\*   is called on and the position of the running Update call:
\*     pc                  "idle" (no call yet, or a mutator ran), "bt1" (in
\*                         the Backtracking call of line 84), "body" (that
\*                         call returned), "bt2" (in the Backtracking call of
\*                         line 164), "done" (Update returned)
\*     stepSize, iterate, gradient, gradientNorm, sampleVariance
\*                         the driver's variables Update takes by reference
\*     offset, batchSize, backtrackingBatchSize
\*                         the arguments of the running (or last) call
\*     iteratePrev, backtrackStepSize, searchParameter
\*                         the members of the object
\*     overallObjective    the local of Backtracking
\*   and, recorded for the properties,
\*     calls               Update calls made
\*     entryStepSize, entryIterate, entrySampleVariance
\*                         stepSize, iterate and sampleVariance as passed to
\*                         Update
\*     s0                  stepSize as passed to Backtracking
\*     prevUsed            iteratePrev as read by the curvature (line 135)
\*     v                   the curvature v
\*     blendIn             stepSize before the smoothing of lines 161-162
\*     samples, deltas, terms
\*                         functionGradient, delta0 and the term added to vB
\*                         for j = 1, 2, ... (samples[1], deltas[1]: the seed)
\*     returnedIterate     iterate as returned by the last call
\* twin: a second object and driver, started in the same state and given the
\*   same calls, each with the opposite reset flag.
VARIABLES function, ctl, twin

vars == <<function, ctl, twin>>

\* ------------------------------------------------------ Backtracking
\* iterate - (stepSize * gradient)
IterateUpdate(c) == MatSub(c.iterate, MatScale(c.stepSize, c.gradient))

\* A bound that does not scale with stepSize.
UnscaledBound(c) ==
    Sub(c.overallObjective, Mul(c.searchParameter, c.gradientNorm))

\* overallObjective - searchParameter * stepSize * gradientNorm
DecreaseBound(c) ==
    Sub(c.overallObjective, Mul(Mul(c.searchParameter, c.stepSize), c.gradientNorm))

\* A loop condition that compares with overallObjective alone.
ObjectiveOnlyCondition(fn, c) ==
    Greater(Evaluate(fn, IterateUpdate(c), c.offset, c.backtrackingBatchSize),
            c.overallObjective)

\* The condition of the while loop (lines 209-210).
LoopCondition(fn, c) ==
    Greater(Evaluate(fn, IterateUpdate(c), c.offset, c.backtrackingBatchSize),
            DecreaseBound(c))

\* Entry of Backtracking (lines 202-207), the call made from position next.
EnterBacktracking(fn, c, next) ==
    [c EXCEPT !.pc = next,
              !.overallObjective =
                  Evaluate(fn, c.iterate, c.offset, c.backtrackingBatchSize),
              !.s0 = c.stepSize]

\* One pass of the loop body (lines 212-216).
BacktrackShrink(c) ==
    [c EXCEPT !.stepSize = Mul(c.stepSize, c.backtrackStepSize)]

\* Backtracking returns (line 218).
BacktrackReturn(c) ==
    IF c.pc = "bt1" THEN [c EXCEPT !.pc = "body"]
    ELSE [c EXCEPT !.pc = "done", !.returnedIterate = c.iterate]

\* ------------------------------------------------------------ Update
\* An entry of Update that forgets iteratePrev when reset is set.
ResettingUpdateCall(fn, c, offset, batchSize, backtrackingBatchSize, reset) ==
    EnterBacktracking(fn,
        [c EXCEPT !.offset = offset,
                  !.batchSize = batchSize,
                  !.backtrackingBatchSize = backtrackingBatchSize,
                  !.calls = c.calls + 1,
                  !.iteratePrev = IF reset THEN <<>> ELSE c.iteratePrev,
                  !.entryStepSize = c.stepSize,
                  !.entryIterate = c.iterate,
                  !.entrySampleVariance = c.sampleVariance],
        "bt1")

\* Entry of Update (lines 72-85): the arguments are bound and Backtracking
\* is called.  The reset parameter has no name in the source, so no
\* statement of Update can read it.
UpdateCall(fn, c, offset, batchSize, backtrackingBatchSize, reset) ==
    EnterBacktracking(fn,
        [c EXCEPT !.offset = offset,
                  !.batchSize = batchSize,
                  !.backtrackingBatchSize = backtrackingBatchSize,
                  !.calls = c.calls + 1,
                  !.entryStepSize = c.stepSize,
                  !.entryIterate = c.iterate,
                  !.entrySampleVariance = c.sampleVariance],
        "bt1")

\* The divisor k of line 113 in pass j of the loop (j = 1, k = 1; ++j, ++k).
MeanDivisor(j) == j

\* One pass of the loop body (lines 112-124) on the locals in a:
\* functionGradient and functionGradientPrev are the gradients of the sample
\* at iterate and at iteratePrev, delta0 the value line 113 computes.
LoopPass(a, functionGradient, functionGradientPrev, delta0) ==
    [vB              |-> Add(a.vB,
                             Mul(Norm(MatSub(functionGradient, a.delta1)),
                                 Norm(MatSub(functionGradient, delta0)))),
     delta1          |-> delta0,
     gradient        |-> MatAdd(a.gradient, functionGradient),
     gradPrevIterate |-> MatAdd(a.gradPrevIterate, functionGradientPrev),
     samples         |-> Append(a.samples, functionGradient),
     deltas          |-> Append(a.deltas, delta0),
     terms           |-> Append(a.terms,
                                Mul(Norm(MatSub(functionGradient, a.delta1)),
                                    Norm(MatSub(functionGradient, delta0))))]

\* Line 113: delta1 + (functionGradient - delta1) / k.
RunningMean(delta1, functionGradient, k) ==
    MatAdd(delta1, MatDiv(MatSub(functionGradient, delta1), FromInt(k)))

LoopPassOf(a, functionGradient, functionGradientPrev, k) ==
    LoopPass(a, functionGradient, functionGradientPrev,
             RunningMean(a.delta1, functionGradient, k))

\* Passes j, j + 1, ... of the loop of lines 110-125 from the locals in a.
RECURSIVE GradientLoop(_, _, _, _, _, _, _)
GradientLoop(fn, iterate, iteratePrev, offset, backtrackingBatchSize, j, a) ==
    IF ~(j < backtrackingBatchSize) THEN a
    ELSE GradientLoop(fn, iterate, iteratePrev, offset, backtrackingBatchSize,
             j + 1,
             LoopPassOf(a, Gradient(fn, iterate, offset + j, 1),
                        Gradient(fn, iteratePrev, offset + j, 1),
                        MeanDivisor(j)))

\* Locals that seed gradient with the gradient at iteratePrev.
SwappedLoopSeed(seed, seedPrev) ==
    [vB              |-> NumZero,
     delta1          |-> seed,
     gradient        |-> seedPrev,
     gradPrevIterate |-> seed,
     samples         |-> <<seed>>,
     deltas          |-> <<seed>>,
     terms           |-> <<>>]

\* The locals before the loop (lines 95, 105-108).
LoopSeed(seed, seedPrev) ==
    [vB              |-> NumZero,
     delta1          |-> seed,
     gradient        |-> seed,
     gradPrevIterate |-> seedPrev,
     samples         |-> <<seed>>,
     deltas          |-> <<seed>>,
     terms           |-> <<>>]

\* A curvature that replaces a non-finite vTmp by 1.
UnitCurvature(iterate, iteratePrev, gradient, gradPrevIterate) ==
    LET vNum   == TraceTransMul(MatSub(iterate, iteratePrev),
                                MatSub(gradient, gradPrevIterate))
        vDenom == NormSquared(MatSub(iterate, iteratePrev))
    IN  IF IsZero(vDenom) THEN One ELSE Div(vNum, vDenom)

\* Lines 135-139: vTmp is not finite exactly when vDenom is 0.
Curvature(iterate, iteratePrev, gradient, gradPrevIterate) ==
    LET vNum   == TraceTransMul(MatSub(iterate, iteratePrev),
                                MatSub(gradient, gradPrevIterate))
        vDenom == NormSquared(MatSub(iterate, iteratePrev))
    IN  IF IsZero(vDenom) THEN NumZero ELSE Div(vNum, vDenom)

\* Line 151 divides by (double) batchSize - 1.
DecayDividesByZero(fn, batchSize, gradientNorm, sampleVariance, v) ==
    /\ ~IsZero(gradientNorm) /\ ~IsZero(sampleVariance) /\ batchSize # 0
    /\ ~IsZero(v)
    /\ batchSize < NumFunctions(fn)
    /\ batchSize = 1

\* Lines 146-158.
StepSizeDecay(fn, batchSize, gradientNorm, sampleVariance, v) ==
    IF ~IsZero(gradientNorm) /\ ~IsZero(sampleVariance) /\ batchSize # 0
       /\ ~IsZero(v)
    THEN IF batchSize < NumFunctions(fn)
         THEN Div(Sub(One,
                      Div(Mul(Div(One, Sub(FromInt(batchSize), One)), sampleVariance),
                          Mul(FromInt(batchSize), gradientNorm))),
                  v)
         ELSE Div(One, v)
    ELSE NumZero

\* (double) batchSize / function.NumFunctions()
BatchRatio(fn, batchSize) == Div(FromInt(batchSize), FromInt(NumFunctions(fn)))

\* A blend with the two weights exchanged.
SwappedSmoothing(fn, stepSize, stepSizeDecay, batchSize) ==
    Add(Mul(stepSize, BatchRatio(fn, batchSize)),
        Mul(stepSizeDecay, Sub(One, BatchRatio(fn, batchSize))))

\* Lines 161-162.
Smoothing(fn, stepSize, stepSizeDecay, batchSize) ==
    Add(Mul(stepSize, Sub(One, BatchRatio(fn, batchSize))),
        Mul(stepSizeDecay, BatchRatio(fn, batchSize)))

\* iteratePrev after lines 99-102.
InitializedPrev(c) ==
    IF IsEmpty(c.iteratePrev) THEN Zeros(Len(c.iterate)) ELSE c.iteratePrev

\* Lines 127-139 from the locals a the loop leaves.
EstimatesOf(iterate, iteratePrev, backtrackingBatchSize, a) ==
    [iterate        |-> iterate,
     iteratePrev    |-> iteratePrev,
     gradient       |-> a.gradient,
     sampleVariance |-> a.vB,
     gradientNorm   |->
         NormSquared(MatDiv(a.gradient, FromInt(backtrackingBatchSize))),
     v              |-> Curvature(iterate, iteratePrev, a.gradient,
                                  a.gradPrevIterate),
     samples        |-> a.samples,
     deltas         |-> a.deltas,
     terms          |-> a.terms]

\* Lines 104-139 at the advanced iterate.
EstimatesAt(fn, iterate, iteratePrev, offset, backtrackingBatchSize) ==
    EstimatesOf(iterate, iteratePrev, backtrackingBatchSize,
        GradientLoop(fn, iterate, iteratePrev, offset, backtrackingBatchSize, 1,
            LoopSeed(Gradient(fn, iterate, offset, 1),
                     Gradient(fn, iteratePrev, offset, 1))))

\* Lines 87-139: the advanced iterate and the estimates made at it.
Estimates(fn, c) ==
    EstimatesAt(fn, IterateUpdate(c), InitializedPrev(c), c.offset,
                c.backtrackingBatchSize)

\* Update reaches line 151 with batchSize = 1: the division by zero that the
\* callers of Update have to exclude.
DividesByZero(fn, c, e) ==
    DecayDividesByZero(fn, c.batchSize, e.gradientNorm, e.sampleVariance, e.v)

\* An update that keeps the old iteratePrev.
KeptPrev(iterate, iteratePrev) == iteratePrev

\* Line 142: the value iteratePrev is given.
PrevUpdate(iterate, iteratePrev) == iterate

\* Lines 141-165 from the estimates e.
Adapt(fn, c, e) ==
    EnterBacktracking(fn,
        [c EXCEPT !.iterate = e.iterate,
                  !.gradient = e.gradient,
                  !.sampleVariance = e.sampleVariance,
                  !.gradientNorm = e.gradientNorm,
                  !.iteratePrev = PrevUpdate(e.iterate, e.iteratePrev),
                  !.stepSize =
                      Smoothing(fn, c.stepSize,
                          StepSizeDecay(fn, c.batchSize, e.gradientNorm,
                                        e.sampleVariance, e.v),
                          c.batchSize),
                  !.prevUsed = e.iteratePrev,
                  !.v = e.v,
                  !.blendIn = c.stepSize,
                  !.samples = e.samples,
                  !.deltas = e.deltas,
                  !.terms = e.terms],
        "bt2")

\* Lines 87-165, from the return of the first Backtracking call to the entry
\* of the second.
UpdateBody(fn, c) == Adapt(fn, c, Estimates(fn, c))

BodyDividesByZero(fn, c) == DividesByZero(fn, c, Estimates(fn, c))

\* double& BacktrackStepSize() and double& SearchParameter() (lines 171, 176).
SetBacktrackStepSize(c, value) ==
    [c EXCEPT !.backtrackStepSize = value, !.pc = "idle"]

SetSearchParameter(c, value) ==
    [c EXCEPT !.searchParameter = value, !.pc = "idle"]

\* What an object in the middle of an Update call does next.
Step(fn, c) ==
    IF c.pc \in {"bt1", "bt2"}
    THEN IF LoopCondition(fn, c) THEN BacktrackShrink(c) ELSE BacktrackReturn(c)
    ELSE IF c.pc = "body" /\ ~BodyDividesByZero(fn, c) THEN UpdateBody(fn, c)
    ELSE c

\* ------------------------------------------------------- the driver
\* What the driver starts a run with: stepSize, iterate, and the gradient,
\* gradientNorm and sampleVariance it computed for the first call.
InitialStepSizes == {One}

InitialIterates == {<<FromInt(10)>>}

InitialGradients ==
    { [gradient |-> <<FromInt(10)>>, gradientNorm |-> FromInt(100),
       sampleVariance |-> NumZero],
      [gradient |-> <<FromInt(10)>>, gradientNorm |-> FromInt(1000),
       sampleVariance |-> FromInt(2)] }

\* The objective functions of the model: samples centred at 0, 1, 3, 6, ...
\* (sample 0 is the 0.5 * x^2 objective).
ObjectiveFunctions ==
    { [i \in 1..NumSamples |-> FromInt((i * (i - 1)) \div 2)] }

Offsets == {0, 1}

BatchSizes == {1, 2, NumSamples}

BacktrackingBatchSizes == {1, NumSamples}

BacktrackStepSizes == {Literal(1, 2), Literal(1, 4)}

SearchParameters == {Literal(1, 10), Literal(1, 2)}

InitialObject(stepSize, iterate, g) ==
    [pc |-> "idle",
     stepSize |-> stepSize,
     iterate |-> iterate,
     gradient |-> g.gradient,
     gradientNorm |-> g.gradientNorm,
     sampleVariance |-> g.sampleVariance,
     offset |-> 0,
     batchSize |-> 0,
     backtrackingBatchSize |-> 0,
     iteratePrev |-> <<>>,
     backtrackStepSize |-> Literal(1, 2),
     searchParameter |-> Literal(1, 10),
     overallObjective |-> NumZero,
     calls |-> 0,
     entryStepSize |-> stepSize,
     entryIterate |-> iterate,
     entrySampleVariance |-> g.sampleVariance,
     s0 |-> stepSize,
     prevUsed |-> <<>>,
     v |-> NumZero,
     blendIn |-> stepSize,
     samples |-> <<>>,
     deltas |-> <<>>,
     terms |-> <<>>,
     returnedIterate |-> <<>>]

Init ==
    /\ function \in ObjectiveFunctions
    /\ \E stepSize \in InitialStepSizes, iterate \in InitialIterates,
          g \in InitialGradients :
          ctl = InitialObject(stepSize, iterate, g)
    /\ twin = ctl

Callable(c) == c.pc \in {"idle", "done"}

\* The driver calls Update on its variables.
Update ==
    \E offset \in Offsets, batchSize \in BatchSizes,
       backtrackingBatchSize \in BacktrackingBatchSizes, reset \in BOOLEAN :
        /\ Callable(ctl)
        /\ ctl.calls < MaxCalls
        /\ offset + backtrackingBatchSize <= NumFunctions(function)
        /\ ctl' = UpdateCall(function, ctl, offset, batchSize,
                             backtrackingBatchSize, reset)
        /\ twin' = UpdateCall(function, twin, offset, batchSize,
                              backtrackingBatchSize, ~reset)
        /\ UNCHANGED function

\* The loop of Backtracking rejects the candidate stepSize.
Shrink ==
    /\ ctl.pc \in {"bt1", "bt2"}
    /\ LoopCondition(function, ctl)
    /\ ctl' = BacktrackShrink(ctl)
    /\ twin' = Step(function, twin)
    /\ UNCHANGED function

\* The loop of Backtracking accepts stepSize and Backtracking returns.
Accept ==
    /\ ctl.pc \in {"bt1", "bt2"}
    /\ ~LoopCondition(function, ctl)
    /\ ctl' = BacktrackReturn(ctl)
    /\ twin' = Step(function, twin)
    /\ UNCHANGED function

\* Update goes on after its first Backtracking call.
Body ==
    /\ ctl.pc = "body"
    /\ ~BodyDividesByZero(function, ctl)
    /\ ctl' = UpdateBody(function, ctl)
    /\ twin' = Step(function, twin)
    /\ UNCHANGED function

\* The driver sets one parameter of the constructed object before the run.
Configure ==
    /\ Callable(ctl)
    /\ ctl.calls = 0
    /\ ctl.backtrackStepSize = Literal(1, 2)
    /\ ctl.searchParameter = Literal(1, 10)
    /\ \/ \E b \in BacktrackStepSizes :
             /\ b # ctl.backtrackStepSize
             /\ ctl' = SetBacktrackStepSize(ctl, b)
             /\ twin' = SetBacktrackStepSize(twin, b)
       \/ \E sp \in SearchParameters :
             /\ sp # ctl.searchParameter
             /\ ctl' = SetSearchParameter(ctl, sp)
             /\ twin' = SetSearchParameter(twin, sp)
    /\ UNCHANGED function

Next == Update \/ Shrink \/ Accept \/ Body \/ Configure

Spec == Init /\ [][Next]_vars

\* A call inside Backtracking is at the head of its loop.
InBacktracking == ctl.pc \in {"bt1", "bt2"}

\* ENABLED <<Shrink \/ Accept>>_vars written out: at the head of the loop the
\* test passes and Backtracking returns (pc changes), or it fails and the
\* shrink changes stepSize.
LoopStepEnabled ==
    /\ InBacktracking
    /\ LoopCondition(function, ctl) =>
           \/ BacktrackShrink(ctl) # ctl
           \/ Step(function, twin) # twin

\* The loop of Backtracking runs on: this is WF_vars(Shrink \/ Accept), with
\* ENABLED written out as LoopStepEnabled.
FairSpec ==
    Spec /\ ([]<>(~LoopStepEnabled) \/ []<><<Shrink \/ Accept>>_vars)

\* ------------------------------------------------------- properties
\* a <= b
NotGreater(a, b) == Sub(b, a)[1] >= 0

\* The sufficient-decrease test of a Backtracking call with the arguments
\* held in c, for the candidate stepSize s.
Decreases(c, s) ==
    NotGreater(
        Evaluate(function, MatSub(c.iterate, MatScale(s, c.gradient)), c.offset,
                 c.backtrackingBatchSize),
        Sub(Evaluate(function, c.iterate, c.offset, c.backtrackingBatchSize),
            Mul(Mul(c.searchParameter, s), c.gradientNorm)))

\* A Backtracking call has returned and its arguments are still in place.
BacktrackingReturned == ctl.pc \in {"body", "done"}

\* target is s * b^n for the smallest n >= 0 whose candidate passes the test.
RECURSIVE SmallestShrink(_, _, _)
SmallestShrink(c, s, target) ==
    IF s = target THEN Decreases(c, s)
    ELSE /\ ~IsZero(s)
         /\ ~Decreases(c, s)
         /\ SmallestShrink(c, Mul(s, c.backtrackStepSize), target)

\* target is s * b^n for some n >= 0.
RECURSIVE ShrunkFrom(_, _, _)
ShrunkFrom(s, b, target) ==
    \/ s = target
    \/ ~IsZero(s) /\ ShrunkFrom(Mul(s, b), b, target)

\* C1: whenever Backtracking returns, from the call at the start of Update
\* and from the call at its end, the returned stepSize passes the
\* sufficient-decrease test for the arguments of that call.
C1_SufficientDecrease ==
    BacktrackingReturned => Decreases(ctl, ctl.stepSize)

C1_Witness ==
    /\ ctl.pc = "done"
    /\ ctl.stepSize # ctl.s0
    /\ ctl.stepSize[1] > 0
    /\ ~IsZero(ctl.gradientNorm)

\* C2: Backtracking never increases stepSize and returns s0 * b^n for the
\* smallest n >= 0 whose candidate passes the test (unchanged when s0
\* passes).
C2_MonotoneShrink ==
    BacktrackingReturned =>
        /\ NotGreater(ctl.stepSize, ctl.s0)
        /\ SmallestShrink(ctl, ctl.s0, ctl.stepSize)

\* The batch of the running call holds only samples 0.5 * x^2.
PlainBatch ==
    \A i \in ctl.offset .. ctl.offset + ctl.backtrackingBatchSize - 1 :
        IsZero(function[i + 1])

\* The arguments of the 'shrink required' scenario.
ShrinkScenario ==
    /\ ctl.calls = 1
    /\ PlainBatch
    /\ ctl.backtrackingBatchSize = 1
    /\ ctl.entryIterate = <<FromInt(10)>>
    /\ ctl.iterate = <<FromInt(10)>>
    /\ ctl.gradient = <<FromInt(10)>>
    /\ ctl.gradientNorm = FromInt(1000)
    /\ ctl.backtrackStepSize = Literal(1, 2)
    /\ ctl.searchParameter = Literal(1, 10)
    /\ ctl.entryStepSize = One

\* C3: in the 'shrink required' scenario the loop of Backtracking ends:
\* after one or more halvings the test passes and Backtracking returns.
C3_ShrinkScenarioTerminates ==
    (ShrinkScenario /\ ctl.pc = "bt1" /\ ctl.stepSize = One)
        ~> (ShrinkScenario /\ ctl.pc = "body"
            /\ Greater(One, ctl.stepSize)
            /\ ShrunkFrom(One, Literal(1, 2), ctl.stepSize)
            /\ Decreases(ctl, ctl.stepSize))

C3_Witness ==
    /\ ShrinkScenario
    /\ ctl.pc = "body"
    /\ Greater(One, ctl.stepSize)
    /\ Decreases(ctl, ctl.stepSize)

\* C4: with backtrackStepSize in (0,1), searchParameter > 0,
\* NumFunctions() > 0 and an initial stepSize > 0, stepSize is strictly
\* positive after every Update call.
C4_StepSizePositive == ctl.pc = "done" => ctl.stepSize[1] > 0

C6_State ==
    /\ ctl.calls = 0 => IsEmpty(ctl.iteratePrev)
    /\ ctl.pc \in {"bt2", "done"} => ctl.iteratePrev = ctl.iterate
    /\ ctl.pc = "done" => ctl.returnedIterate = ctl.iterate
    /\ ctl.pc = "bt2" =>
           ctl.prevUsed = IF ctl.calls = 1 THEN Zeros(Len(ctl.iterate))
                          ELSE ctl.returnedIterate

C6_PreviousIterate ==
    /\ []C6_State
    /\ [][ctl'.iteratePrev # ctl.iteratePrev =>
              ctl.pc = "body" /\ ctl'.pc = "bt2"]_vars

C6_Witness ==
    /\ ctl.pc = "bt2"
    /\ ctl.calls = 2
    /\ ctl.prevUsed # Zeros(Len(ctl.iterate))
    /\ ctl.prevUsed # ctl.iterate

\* s * (1 - batchSize / NumFunctions()) for the running call.
ZeroCurvatureStep(c) ==
    Mul(c.blendIn,
        Sub(One, Div(FromInt(c.batchSize), FromInt(NumFunctions(function)))))

\* C7 as stated: when the curvature is 0 the stepsize Update leaves in
\* stepSize is s * (1 - batchSize / NumFunctions()).
C7_AsStated ==
    (ctl.pc = "done" /\ IsZero(ctl.v)) => ctl.stepSize = ZeroCurvatureStep(ctl)

\* C7 as amended: when the curvature is 0 the smoothing of lines 161-162
\* yields s * (1 - batchSize / NumFunctions()), and Update leaves in stepSize
\* that value times backtrackStepSize^n for some n >= 0.
C7_ZeroCurvatureSmoothing ==
    (ctl.pc \in {"bt2", "done"} /\ IsZero(ctl.v)) =>
        /\ ctl.s0 = ZeroCurvatureStep(ctl)
        /\ ShrunkFrom(ctl.s0, ctl.backtrackStepSize, ctl.stepSize)

C7_Witness ==
    /\ ctl.pc = "done"
    /\ IsZero(ctl.v)
    /\ ctl.batchSize < NumFunctions(function)
    /\ ctl.stepSize # ctl.s0
    /\ ~IsZero(ctl.stepSize)

\* C8: a call with backtrackingBatchSize = 1 returns sampleVariance = 0
\* whatever it was on entry, the gradient of sample offset at the advanced
\* iterate, and the squared norm of that gradient.
C8_SingleSample ==
    (ctl.pc \in {"bt2", "done"} /\ ctl.backtrackingBatchSize = 1) =>
        /\ IsZero(ctl.sampleVariance)
        /\ ctl.gradient = SampleGradient(function, ctl.iterate, ctl.offset)
        /\ ctl.gradientNorm = Mul(AbsNum(ctl.gradient[1]), AbsNum(ctl.gradient[1]))

C8_Witness ==
    /\ ctl.pc = "done"
    /\ ctl.backtrackingBatchSize = 1
    /\ ~IsZero(ctl.entrySampleVariance)
    /\ ~IsZero(ctl.gradientNorm)

\* The arithmetic mean of the first n matrices of seq.
RECURSIVE SumOf(_, _)
SumOf(seq, n) == IF n = 1 THEN seq[1] ELSE MatAdd(SumOf(seq, n - 1), seq[n])

MeanOf(seq, n) == MatDiv(SumOf(seq, n), FromInt(n))

\* C9: the running quantity of the loop is seeded with the gradient of
\* sample offset, after sample offset + j it is the arithmetic mean of the
\* gradients of samples offset .. offset + j, and the term added to the
\* sample variance is |g_j - mean before| * |g_j - mean after|.
C9_RunningMean ==
    ctl.pc \in {"bt2", "done"} =>
        /\ ctl.deltas[1] = SampleGradient(function, ctl.iterate, ctl.offset)
        /\ \A j \in 1 .. ctl.backtrackingBatchSize - 1 :
              /\ ctl.samples[j + 1] =
                     SampleGradient(function, ctl.iterate, ctl.offset + j)
              /\ ctl.deltas[j + 1] = MeanOf(ctl.samples, j + 1)
              /\ ctl.terms[j] =
                     Mul(Norm(MatSub(ctl.samples[j + 1], ctl.deltas[j])),
                         Norm(MatSub(ctl.samples[j + 1], ctl.deltas[j + 1])))

\* C10: once Update has returned stepSize = 0, every later call leaves
\* iterate unchanged, computes the curvature 0 and returns stepSize = 0.
C10_ZeroAbsorbing ==
    (ctl.calls >= 2 /\ IsZero(ctl.entryStepSize)) =>
        /\ IsZero(ctl.stepSize)
        /\ ctl.iterate = ctl.entryIterate
        /\ ctl.pc \in {"bt2", "done"} => IsZero(ctl.v)

C10_Witness ==
    /\ ctl.pc = "done"
    /\ ctl.calls >= 2
    /\ IsZero(ctl.entryStepSize)
    /\ ~IsZero(ctl.gradient[1])
====
